---- MODULE Spec2Model ----
(***************************************************************************)
(* State-machine model of src/server.js: the POST /api/convert handler,    *)
(* the rate cache (node-cache with stdTTL 600), the Gemini commentary      *)
(* call with its inbuilt fallback, and the Frankfurter rate fetch.         *)
(*                                                                         *)
(* Each action is one run-to-completion segment of the handler: the code   *)
(* between two awaits runs without interleaving, and reads one clock       *)
(* value.  Several requests may be suspended at an await at the same time. *)
(*                                                                         *)
(* Numbers are fixed-point decimals: amounts and converted amounts in      *)
(* units of 1/AmountScale, rates in units of 1/RateScale.  toFixed rounds  *)
(* to the nearest value.  A decimal that is an exact tie is in binary a     *)
(* double on either side of it; the rates and amounts of the model produce *)
(* no exact tie, so that the decimal and the binary rounding agree.        *)
(***************************************************************************)
EXTENDS Integers, Sequences, FiniteSets, TLC

(* ------------------------------ bounds -------------------------------- *)
\* number of conversion requests of a run
MaxReq == 2
\* number of clock advances of a run
MaxTicks == 2
\* seconds per clock advance
TickStep == 600

(* --------------------------- program constants ------------------------ *)
\* new NodeCache({ stdTTL: 600 })
StdTTL == 600
CACHE_PREFIX == "FX_RATE_"
\* toFixed(2): converted_amount has two decimal digits
AmountScale == 10^2
\* toFixed(4): the displayed rate has four decimal digits
DisplayScale == 10^4
\* the model's rates carry five decimal digits
RateScale == 10^5

(* ------------------------- JavaScript values -------------------------- *)
\* an optional value: <<>> is undefined / absent, <<x>> is x
Undefined == <<>>
Some(x) == <<x>>
IsDefined(o) == o # <<>>
Get(o) == o[1]

\* a JavaScript number: finite (v in the unit of its use), infinite (v is the sign), NaN
Fin(v) == [k |-> "fin", v |-> v]
Inf == [k |-> "inf", v |-> 1]
NaN == [k |-> "nan", v |-> 0]

\* a JSON value in the amount field of the request body
JUndefined == [t |-> "undefined", b |-> FALSE, n |-> NaN, s |-> <<>>]
JNull == [t |-> "null", b |-> FALSE, n |-> NaN, s |-> <<>>]
JBool(b) == [t |-> "boolean", b |-> b, n |-> NaN, s |-> <<>>]
JNum(n) == [t |-> "number", b |-> FALSE, n |-> n, s |-> <<>>]
JStr(s) == [t |-> "string", b |-> FALSE, n |-> NaN, s |-> s]

Digits == {"0", "1", "2", "3", "4", "5", "6", "7", "8", "9"}
DigitVal(c) == CASE c = "0" -> 0 [] c = "1" -> 1 [] c = "2" -> 2 [] c = "3" -> 3
                 [] c = "4" -> 4 [] c = "5" -> 5 [] c = "6" -> 6 [] c = "7" -> 7
                 [] c = "8" -> 8 [] c = "9" -> 9

IsDigits(s) == Len(s) > 0 /\ \A i \in 1..Len(s) : s[i] \in Digits

RECURSIVE DigitsVal(_)
DigitsVal(s) == IF s = <<>> THEN 0
                ELSE 10 * DigitsVal(SubSeq(s, 1, Len(s) - 1)) + DigitVal(s[Len(s)])

\* Number(string) for strings of characters: "" is 0, an optionally signed
\* run of digits is its value, anything else is NaN
StringToNumber(s) ==
    IF s = <<>> THEN Fin(0)
    ELSE IF IsDigits(s) THEN Fin(DigitsVal(s) * AmountScale)
    ELSE IF Head(s) = "-" /\ IsDigits(Tail(s)) THEN Fin(-(DigitsVal(Tail(s)) * AmountScale))
    ELSE NaN

\* ToNumber, as applied by isNaN(amount), amount <= 0 and amount * rate
ToNumber(a) ==
    CASE a.t = "undefined" -> NaN
      [] a.t = "null" -> Fin(0)
      [] a.t = "boolean" -> Fin(IF a.b THEN AmountScale ELSE 0)
      [] a.t = "number" -> a.n
      [] a.t = "string" -> StringToNumber(a.s)

\* ToBoolean, as applied by !amount
Truthy(a) ==
    CASE a.t = "undefined" -> FALSE
      [] a.t = "null" -> FALSE
      [] a.t = "boolean" -> a.b
      [] a.t = "number" -> (a.n.k = "inf" \/ (a.n.k = "fin" /\ a.n.v # 0))
      [] a.t = "string" -> a.s # <<>>

IsNaN(a) == ToNumber(a).k = "nan"

LeqZero(a) ==
    LET x == ToNumber(a) IN (x.k = "fin" /\ x.v <= 0) \/ (x.k = "inf" /\ x.v < 0)

\* parseFloat(amount): the leading number of String(amount)
ParseFloat(a) ==
    CASE a.t = "number" -> a.n
      [] a.t = "string" -> (IF a.s = <<>> THEN NaN ELSE StringToNumber(a.s))
      [] OTHER -> NaN

\* the validation of line 72, as written
AmountDropsSignCheck(a) == ~Truthy(a) \/ IsNaN(a)
InvalidAmount(a) == ~Truthy(a) \/ IsNaN(a) \/ LeqZero(a)

(* ----------------------------- arithmetic ----------------------------- *)
\* amount * rate: a product in units of 1/(AmountScale * RateScale);
\* an undefined rate converts to NaN
Times(x, rate) ==
    IF ~IsDefined(rate) \/ x.k = "nan" THEN NaN
    ELSE IF x.k = "inf" THEN x
    ELSE Fin(x.v * Get(rate))

\* toFixed: the multiple of q nearest to v >= 0, the larger one at an exact tie
RoundDown(v, q) == (v \div q) * q
RoundTo(v, q) == IF 2 * (v % q) < q THEN (v \div q) * q ELSE (v \div q) * q + q

\* (amount * rate).toFixed(2), in units of 1/AmountScale ("Infinity" and "NaN" as such)
ToFixed2(x) ==
    IF x.k = "fin" THEN Fin(RoundTo(x.v, RateScale) \div RateScale) ELSE x

\* parseFloat(rate.toFixed(4)), kept in units of 1/RateScale
RateUnrounded(r) == r
ToFixed4(r) == RoundTo(r, RateScale \div DisplayScale)

\* the decimal digits of a fraction f of `width` digits, trailing zeros dropped
RECURSIVE FracDigits(_, _)
FracDigits(f, width) ==
    IF f % 10 = 0 /\ width > 1 THEN FracDigits(f \div 10, width - 1)
    ELSE LET d == ToString(f)
             RECURSIVE Pad(_)
             Pad(t) == IF Len(t) < width THEN Pad("0" \o t) ELSE t
         IN  Pad(d)

\* String(rate) as a template literal renders it
RateToString(rate) ==
    IF ~IsDefined(rate) THEN "undefined"
    ELSE LET n == Get(rate)
         IN  IF n % RateScale = 0 THEN ToString(n \div RateScale)
             ELSE ToString(n \div RateScale) \o "." \o FracDigits(n % RateScale, 5)

\* statusCode.toString().padStart(3, '0')
RECURSIVE PadStart3(_)
PadStart3(t) == IF Len(t) < 3 THEN PadStart3("0" \o t) ELSE t

(* ------------------------ generateInbuiltAnalysis --------------------- *)
Info(strength, drivers) == [strength |-> Some(strength), drivers |-> Some(drivers)]

currencies ==
    [c \in {"USD", "EUR", "GBP", "JPY", "AUD"} |->
        CASE c = "USD" -> Info("strong", <<"Fed policy", "economic growth", "safe-haven demand">>)
          [] c = "EUR" -> Info("moderate", <<"ECB policy", "energy prices", "manufacturing data">>)
          [] c = "GBP" -> Info("moderate", <<"BoE decisions", "Brexit impacts", "services sector">>)
          [] c = "JPY" -> Info("weak", <<"BoJ ultra-loose policy", "trade balance", "risk sentiment">>)
          [] c = "AUD" -> Info("commodity-linked", <<"China demand", "commodity prices", "RBA stance">>)]

\* the names every object literal inherits from Object.prototype: currencies[name]
\* is then a truthy value that has neither strength nor drivers
ObjectPrototypeKeys ==
    {"constructor", "toString", "toLocaleString", "valueOf", "hasOwnProperty",
     "isPrototypeOf", "propertyIsEnumerable", "__proto__", "__defineGetter__",
     "__defineSetter__", "__lookupGetter__", "__lookupSetter__"}

DefaultInfo == Info("neutral", <<"interest rates", "economic data", "geopolitical factors">>)

\* currencies[code] || { strength: "neutral", ... }
InfoOf(code) ==
    IF code \in DOMAIN currencies THEN currencies[code]
    ELSE IF code \in ObjectPrototypeKeys THEN [strength |-> Undefined, drivers |-> Undefined]
    ELSE DefaultInfo

\* parseFloat(rate) > 1 ? "strengthening" : "weakening"
Trend(rate) ==
    IF IsDefined(rate) /\ Get(rate) > RateScale THEN "strengthening" ELSE "weakening"

Outlook(baseInfo, targetInfo) ==
    IF baseInfo.strength = Some("strong") /\ targetInfo.strength # Some("strong")
    THEN "bullish" ELSE "neutral"

\* drivers.slice(0, 2).join(' and ')
TwoDrivers(info) == Get(info.drivers)[1] \o " and " \o Get(info.drivers)[2]

\* baseInfo.drivers.slice(...) on an undefined drivers throws a TypeError
InbuiltThrows(baseCurrency, targetCurrency) ==
    ~IsDefined(InfoOf(baseCurrency).drivers) \/ ~IsDefined(InfoOf(targetCurrency).drivers)

\* the template of line 43, as the sequence of its pieces
generateInbuiltAnalysis(baseCurrency, targetCurrency, rate) ==
    LET baseInfo == InfoOf(baseCurrency)
        targetInfo == InfoOf(targetCurrency)
    IN  <<"The ", baseCurrency, " is currently ", Trend(rate), " against ", targetCurrency,
          " at 1:", RateToString(rate), ". Key drivers include ", TwoDrivers(baseInfo),
          " for ", baseCurrency, " and ", TwoDrivers(targetInfo), " for ", targetCurrency,
          ". Short-term outlook appears ", Outlook(baseInfo, targetInfo),
          ", though traders should monitor upcoming economic releases for confirmation.",
          " This automated analysis is based on typical market drivers for these currencies.">>

\* the texts the generative service may answer the prompt of lines 50-55 with
GeminiTexts(baseCurrency, targetCurrency, rate) ==
    { <<"Gemini: ", baseCurrency, " to ", targetCurrency, " at ", RateToString(rate)>> }

(* ------------------------------ rate cache ---------------------------- *)
\* `${CACHE_PREFIX}${from_currency}_${to_currency}`
cacheKey(from_currency, to_currency) == CACHE_PREFIX \o from_currency \o "_" \o to_currency

\* node-cache _check: an entry is expired once its expiry instant is in the past
ExpiredNever(entry, t) == FALSE
ExpiredAtTtl(entry, t) == entry.t # 0 /\ entry.t <= t
Expired(entry, t) == entry.t # 0 /\ entry.t < t

\* rateCache.has(key)
CacheHasNever(c, key, t) == FALSE
CacheHas(c, key, t) == key \in DOMAIN c /\ ~Expired(c[key], t)

\* the cache after has(key): an expired entry is deleted by the lookup
CacheAfterHas(c, key, t) ==
    IF key \in DOMAIN c /\ Expired(c[key], t)
    THEN [k \in DOMAIN c \ {key} |-> c[k]] ELSE c

\* rateCache.set(key, value): expiry = now + stdTTL; by and at record the
\* request that wrote the entry and the instant of the write
CacheSetKeepsFirst(c, key, value, t, r) ==
    IF key \in DOMAIN c THEN c
    ELSE [k \in DOMAIN c \cup {key} |->
            IF k = key THEN [t |-> t + StdTTL, v |-> value, by |-> r, at |-> t] ELSE c[k]]
CacheSet(c, key, value, t, r) ==
    [k \in DOMAIN c \cup {key} |->
        IF k = key THEN [t |-> t + StdTTL, v |-> value, by |-> r, at |-> t] ELSE c[k]]

(* ------------------------------ responses ---------------------------- *)
NoBody ==
    [from_currency |-> Undefined, to_currency |-> Undefined, rate |-> Undefined,
     converted_amount |-> Undefined, analysis |-> Undefined, timestamp |-> Undefined,
     cached |-> Undefined, amount |-> Undefined, source |-> Undefined]

Response(status, error, code, body) ==
    [status |-> status, error |-> error, code |-> code, body |-> body]

\* no response sent yet
NoResponse == Response(0, "", "", NoBody)

\* res.status(400).json({ error: 'Invalid amount', code: 'INV-AMT' })
InvalidAmountResponse == Response(400, "Invalid amount", "INV-AMT", NoBody)

\* res.json({ ...cached, cached: true, amount: parseFloat(amount),
\*            converted_amount: (amount * cached.rate).toFixed(2) })
CachedResponse(cached, amount) ==
    Response(200, "", "",
        [NoBody EXCEPT !.rate = cached.rate,
                       !.analysis = Some(cached.analysis),
                       !.timestamp = Some(cached.timestamp),
                       !.cached = Some(TRUE),
                       !.amount = Some(ParseFloat(amount)),
                       !.converted_amount = Some(ToFixed2(Times(ToNumber(amount), cached.rate)))])

\* the res.json of lines 105-113; the rate is a number here
FreshResponse(from_currency, to_currency, rate, amount, analysis, t) ==
    Response(200, "", "",
        [NoBody EXCEPT !.from_currency = Some(from_currency),
                       !.to_currency = Some(to_currency),
                       !.rate = Some(ToFixed4(Get(rate))),
                       !.converted_amount = Some(ToFixed2(Times(ToNumber(amount), rate))),
                       !.analysis = Some(analysis),
                       !.timestamp = Some(t),
                       !.source = Some("Frankfurter.app")])

\* error.response?.status || 500
StatusAlways500(errStatus) == 500
StatusCode(errStatus) ==
    IF IsDefined(errStatus) /\ Get(errStatus) # 0 THEN Get(errStatus) ELSE 500

\* the catch of lines 115-122; errStatus is error.response?.status
CatchResponseFixedCode(errStatus) ==
    Response(StatusCode(errStatus), "Conversion service unavailable", "SRV-500", NoBody)
CatchResponse(errStatus) ==
    Response(StatusCode(errStatus), "Conversion service unavailable",
             "SRV-" \o PadStart3(ToString(StatusCode(errStatus))), NoBody)

(* -------------------------------- inputs ------------------------------ *)
\* (from_currency, to_currency) of the requests: table codes, a code outside
\* the table, a code holding the delimiter, a code Object.prototype defines
Pairs ==
    { <<"USD", "EUR">>, <<"EUR", "USD">>, <<"X_X", "X">>, <<"X", "X_X">>,
      <<"constructor", "EUR">> }

\* amount values a JSON body can carry: missing, 0, -156, "abc", true, 1e999
OtherAmounts ==
    { JUndefined, JNum(Fin(0)), JNum(Fin(-15600)), JStr(<<"a", "b", "c">>),
      JBool(TRUE), JNum(Inf) }

Body(amount, from_currency, to_currency) ==
    [amount |-> amount, from_currency |-> from_currency, to_currency |-> to_currency]

\* the request bodies: 156 of every pair, and every other amount of USD to EUR
Bodies ==
    { Body(JNum(Fin(15600)), p[1], p[2]) : p \in Pairs }
      \cup { Body(a, "USD", "EUR") : a \in OtherAmounts }

\* rates of the provider: 0.92346 (156 * 0.92346 = 144.05976: rounded 144.06,
\* truncated 144.05, with the 4-digit rate 0.9235 144.07) and 1.25
Rates == { 92346, 125000 }

\* fxResponse.data: a rates object with the target's rate, a rates object
\* without it, or a body without rates
FxReplies ==
    { [hasRates |-> TRUE, rate |-> Some(x)] : x \in Rates }
      \cup { [hasRates |-> TRUE, rate |-> Undefined], [hasRates |-> FALSE, rate |-> Undefined] }

\* error.response?.status of a rejected axios.get: an HTTP status outside
\* 2xx, or none (no response was received)
FxErrors == { Some(404), Some(503), Undefined }

(* -------------------------------- state ------------------------------- *)
VARIABLES
    now,      \* the clock, in seconds
    cache,    \* rateCache: key -> [t: expiry, v: value, at: instant of the write,
              \*   by: the record of the request that wrote it]
    pc,       \* per request: "idle", "fetch" (awaiting axios.get),
              \*   "analysis" (awaiting getMarketAnalysis), "done"
    body,     \* per request in flight: req.body
    rate,     \* per request in flight: the local rate of line 95
    hist,     \* per request in flight: the calls it made so far, the entry it
              \*   was served, the expired entry it found, the instant of its
              \*   cache miss, the entry its write replaced
    last      \* the request the step just taken answered (its body, response
              \*   and calls), NoneAnswered when the step sent no response

vars == <<now, cache, pc, body, rate, hist, last>>

Reqs == 1..MaxReq

NoHist ==
    [outcome |-> "none", rateCalls |-> 0, commentaryCalls |-> 0,
     cacheReads |-> 0, cacheWrites |-> 0,
     fxError |-> Undefined, fxRate |-> Undefined, fetchedAt |-> Undefined,
     served |-> Undefined, stale |-> Undefined, commentaryFailed |-> FALSE,
     missAt |-> Undefined, overwrote |-> Undefined]

IdleBody == Body(JUndefined, "", "")

\* the record of an answered request
Answered(r, b, rt, response, h) ==
    [id |-> r, body |-> b, rate |-> rt, resp |-> response, hist |-> h]

NoneAnswered == Answered(0, IdleBody, Undefined, NoResponse, NoHist)

Init ==
    /\ now = 0
    /\ cache = <<>>
    /\ pc = [r \in Reqs |-> "idle"]
    /\ body = [r \in Reqs |-> IdleBody]
    /\ rate = [r \in Reqs |-> Undefined]
    /\ hist = [r \in Reqs |-> NoHist]
    /\ last = NoneAnswered

\* requests are numbered in the order they arrive
Arrives(r) == pc[r] = "idle" /\ (IF r = 1 THEN TRUE ELSE pc[r - 1] # "idle")

KeyOf(r) == cacheKey(body[r].from_currency, body[r].to_currency)

\* the response leaves the server: the request's locals are gone
Respond(r, b, response, h) ==
    /\ pc' = [pc EXCEPT ![r] = "done"]
    /\ body' = [body EXCEPT ![r] = IdleBody]
    /\ rate' = [rate EXCEPT ![r] = Undefined]
    /\ hist' = [hist EXCEPT ![r] = NoHist]
    /\ last' = Answered(r, b, rate[r], response, h)

(* ------------------------------- actions ------------------------------ *)
\* lines 68-77: the amount fails the validation
ConvertInvalid(r) ==
    \E b \in Bodies :
        /\ Arrives(r)
        /\ InvalidAmount(b.amount)
        /\ Respond(r, b, InvalidAmountResponse, [hist[r] EXCEPT !.outcome = "invalid"])
        /\ UNCHANGED <<now, cache>>

\* lines 68-88: the amount passes, the key is in the cache and not expired
ConvertHit(r) ==
    \E b \in Bodies :
        LET key == cacheKey(b.from_currency, b.to_currency) IN
        /\ Arrives(r)
        /\ ~InvalidAmount(b.amount)
        /\ CacheHas(cache, key, now)
        /\ Respond(r, b, CachedResponse(cache[key].v, b.amount),
                   [hist[r] EXCEPT !.outcome = "hit", !.cacheReads = 2,
                                   !.served = Some(cache[key])])
        /\ UNCHANGED <<now, cache>>

\* lines 68-93: the amount passes, the key is absent or expired; axios.get is issued
ConvertMiss(r) ==
    \E b \in Bodies :
        LET key == cacheKey(b.from_currency, b.to_currency) IN
        /\ Arrives(r)
        /\ ~InvalidAmount(b.amount)
        /\ ~CacheHas(cache, key, now)
        /\ body' = [body EXCEPT ![r] = b]
        /\ cache' = CacheAfterHas(cache, key, now)
        /\ pc' = [pc EXCEPT ![r] = "fetch"]
        /\ hist' = [hist EXCEPT ![r].cacheReads = 1, ![r].rateCalls = 1,
                                ![r].missAt = Some(now),
                                ![r].stale = IF key \in DOMAIN cache
                                             THEN Some([v |-> cache[key].v, at |-> cache[key].at])
                                             ELSE Undefined]
        /\ last' = NoneAnswered
        /\ UNCHANGED <<now, rate>>

\* lines 91-96: axios.get resolves with a rates object; the rate is read and
\* getMarketAnalysis issues generateContent
FetchResolve(r) ==
    \E reply \in FxReplies :
        /\ pc[r] = "fetch"
        /\ reply.hasRates
        /\ rate' = [rate EXCEPT ![r] = reply.rate]
        /\ pc' = [pc EXCEPT ![r] = "analysis"]
        /\ hist' = [hist EXCEPT ![r].commentaryCalls = 1,
                                ![r].fxRate = reply.rate,
                                ![r].fetchedAt = Some(now)]
        /\ last' = NoneAnswered
        /\ UNCHANGED <<now, cache, body>>

\* line 95 on a body without rates: a TypeError, caught at line 115
FetchMalformed(r) ==
    \E reply \in FxReplies :
        /\ pc[r] = "fetch"
        /\ ~reply.hasRates
        /\ Respond(r, body[r], CatchResponse(Undefined), [hist[r] EXCEPT !.outcome = "internal"])
        /\ UNCHANGED <<now, cache>>

\* axios.get rejects: the catch of lines 115-122
FetchReject(r) ==
    \E e \in FxErrors :
        /\ pc[r] = "fetch"
        /\ Respond(r, body[r], CatchResponse(e),
                   [hist[r] EXCEPT !.outcome = "upstream", !.fxError = e])
        /\ UNCHANGED <<now, cache>>

\* lines 99-113 with the analysis in hand: the cache write, then the
\* response; rate.toFixed on an undefined rate throws after the write
Store(r, analysis, failed) ==
    LET response == IF IsDefined(rate[r])
                    THEN FreshResponse(body[r].from_currency, body[r].to_currency, rate[r],
                                       body[r].amount, analysis, now)
                    ELSE CatchResponse(Undefined)
        h == [hist[r] EXCEPT !.outcome = IF IsDefined(rate[r]) THEN "fresh" ELSE "internal",
                             !.cacheWrites = 1,
                             !.commentaryFailed = failed,
                             !.overwrote = IF KeyOf(r) \in DOMAIN cache
                                           THEN Some([at |-> cache[KeyOf(r)].at,
                                                      id |-> cache[KeyOf(r)].by.id,
                                                      rate |-> cache[KeyOf(r)].v.rate,
                                                      fetchedAt |-> cache[KeyOf(r)].by.hist.fetchedAt])
                                           ELSE Undefined]
    IN  /\ cache' = CacheSet(cache, KeyOf(r),
                             [rate |-> rate[r], analysis |-> analysis, timestamp |-> now],
                             now, Answered(r, body[r], rate[r], response, h))
        /\ Respond(r, body[r], response, h)
        /\ UNCHANGED now

\* lines 57-58: generateContent answers with a text
CommentaryResolve(r) ==
    \E text \in GeminiTexts(body[r].from_currency, body[r].to_currency, rate[r]) :
        /\ pc[r] = "analysis"
        /\ Store(r, text, FALSE)

\* lines 59-62: generateContent fails, the inbuilt analysis takes over
CommentaryReject(r) ==
    /\ pc[r] = "analysis"
    /\ ~InbuiltThrows(body[r].from_currency, body[r].to_currency)
    /\ Store(r, generateInbuiltAnalysis(body[r].from_currency, body[r].to_currency, rate[r]), TRUE)

\* lines 59-62 when generateInbuiltAnalysis itself throws: the error leaves
\* getMarketAnalysis and is caught at line 115
CommentaryRejectUncaught(r) ==
    /\ pc[r] = "analysis"
    /\ InbuiltThrows(body[r].from_currency, body[r].to_currency)
    /\ pc' = [pc EXCEPT ![r] = "lost"]
    /\ last' = NoneAnswered
    /\ UNCHANGED <<now, cache, body, rate, hist>>
CommentaryRejectThrows(r) ==
    /\ pc[r] = "analysis"
    /\ InbuiltThrows(body[r].from_currency, body[r].to_currency)
    /\ Respond(r, body[r], CatchResponse(Undefined),
               [hist[r] EXCEPT !.outcome = "internal", !.commentaryFailed = TRUE])
    /\ UNCHANGED <<now, cache>>

\* time passes
Tick ==
    /\ now < MaxTicks * TickStep
    /\ now' = now + TickStep
    /\ last' = NoneAnswered
    /\ UNCHANGED <<cache, pc, body, rate, hist>>

\* node-cache's periodic check deletes the expired entries
CheckData ==
    /\ \E k \in DOMAIN cache : Expired(cache[k], now)
    /\ cache' = [k \in {x \in DOMAIN cache : ~Expired(cache[x], now)} |-> cache[k]]
    /\ last' = NoneAnswered
    /\ UNCHANGED <<now, pc, body, rate, hist>>

Next ==
    \/ \E r \in Reqs :
        \/ ConvertInvalid(r)
        \/ ConvertHit(r)
        \/ ConvertMiss(r)
        \/ FetchResolve(r)
        \/ FetchMalformed(r)
        \/ FetchReject(r)
        \/ CommentaryResolve(r)
        \/ CommentaryReject(r)
        \/ CommentaryRejectThrows(r)
    \/ Tick
    \/ CheckData

Spec == Init /\ [][Next]_vars

\* a pending axios.get settles: it resolves, with or without rates, or rejects
FetchSettles(r) == FetchResolve(r) \/ FetchMalformed(r) \/ FetchReject(r)

\* a pending generateContent settles: it resolves or rejects
CommentarySettles(r) ==
    CommentaryResolve(r) \/ CommentaryReject(r) \/ CommentaryRejectThrows(r)

\* every external call settles and the event loop then resumes the handler
Fairness ==
    \A r \in Reqs : WF_vars(FetchSettles(r)) /\ WF_vars(CommentarySettles(r))

LiveSpec == Init /\ [][Next]_vars /\ Fairness

(* ----------------- the inbuilt analysis as a function ------------------ *)
\* codes for generateInbuiltAnalysis: the five of the table, one outside it,
\* one that Object.prototype defines
SynthCodes == {"USD", "EUR", "GBP", "JPY", "AUD", "XYZ", "constructor"}

\* rates for generateInbuiltAnalysis: 0.92346, 1 and 1.25
SynthRates == {92346, 100000, 125000}

\* a request suspended at generateContent (line 57), for any pair of codes
\* and any rate
SynthInit ==
    \E base \in SynthCodes, target \in SynthCodes, x \in SynthRates :
        /\ now = 0
        /\ cache = <<>>
        /\ pc = [r \in Reqs |-> IF r = 1 THEN "analysis" ELSE "idle"]
        /\ body = [r \in Reqs |-> IF r = 1 THEN Body(JNum(Fin(15600)), base, target)
                                            ELSE IdleBody]
        /\ rate = [r \in Reqs |-> IF r = 1 THEN Some(x) ELSE Undefined]
        /\ hist = [r \in Reqs |->
                      IF r = 1 THEN [NoHist EXCEPT !.cacheReads = 1, !.rateCalls = 1,
                                                   !.commentaryCalls = 1, !.fxRate = Some(x),
                                                   !.fetchedAt = Some(0), !.missAt = Some(0)]
                               ELSE NoHist]
        /\ last = NoneAnswered

\* generateContent fails: the catch of lines 59-62 calls generateInbuiltAnalysis
SynthNext ==
    \E r \in Reqs :
        \/ CommentaryReject(r)
        \/ CommentaryRejectThrows(r)

SynthSpec == SynthInit /\ [][SynthNext]_vars

(* =============================== claims ============================== *)
Answer == last.id # 0
InFlight(r) == pc[r] \in {"fetch", "analysis"}

\* the request r is received by this step; its body
Received(r) == pc[r] = "idle" /\ pc'[r] # "idle"
ReceivedBody(r) == IF pc'[r] = "done" THEN last'.body ELSE body'[r]

\* the amount is a JSON number that is finite and greater than zero
PositiveFinite(a) == a.t = "number" /\ a.n.k = "fin" /\ a.n.v > 0

\* y is a multiple of q that is nearest to x
Nearest(x, y, q) == y % q = 0 /\ 2 * (x - y) <= q /\ 2 * (y - x) <= q

SamePair(b1, b2) == b1.from_currency = b2.from_currency /\ b1.to_currency = b2.to_currency

\* the entry of the request's pair was written, by a request of the same
\* pair that was answered 200, no more than StdTTL seconds ago
FreshEntryFor(b) ==
    LET key == CACHE_PREFIX \o b.from_currency \o "_" \o b.to_currency IN
    /\ key \in DOMAIN cache
    /\ SamePair(cache[key].by.body, b)
    /\ cache[key].by.resp.status = 200
    /\ now <= cache[key].at + StdTTL

EntryFor(b) == cache[CACHE_PREFIX \o b.from_currency \o "_" \o b.to_currency]

\* C1 as stated: a request with a positive amount that arrives within 600
\* seconds of the insertion of its pair's entry is answered from the cache
\* with cached = true, with no rate fetch of its own, and with the same rate
\* and the same analysis as the response of the request that inserted it.
C1_SameRateAndAnalysis ==
    [][\A r \in Reqs :
        (Received(r) /\ PositiveFinite(ReceivedBody(r).amount) /\ FreshEntryFor(ReceivedBody(r)))
        => LET first == EntryFor(ReceivedBody(r)).by IN
           /\ last'.id = r
           /\ last'.resp.status = 200
           /\ last'.resp.body.cached = Some(TRUE)
           /\ last'.resp.body.rate = first.resp.body.rate
           /\ last'.resp.body.analysis = first.resp.body.analysis
           /\ first.hist.rateCalls + last'.hist.rateCalls <= 1]_vars

\* C1 amended: as C1, but the second response carries the provider's
\* full-precision rate, of which the first response carries the rounding
\* to 4 decimal digits.
C1_HitIdempotence ==
    [][\A r \in Reqs :
        (Received(r) /\ PositiveFinite(ReceivedBody(r).amount) /\ FreshEntryFor(ReceivedBody(r)))
        => LET first == EntryFor(ReceivedBody(r)).by IN
           /\ last'.id = r
           /\ last'.resp.status = 200
           /\ last'.resp.body.cached = Some(TRUE)
           /\ last'.resp.body.rate = first.hist.fxRate
           /\ IsDefined(first.resp.body.rate)
           /\ Nearest(Get(first.hist.fxRate), Get(first.resp.body.rate), RateScale \div DisplayScale)
           /\ last'.resp.body.analysis = first.resp.body.analysis
           /\ first.hist.rateCalls + last'.hist.rateCalls <= 1]_vars

\* a second request of the pair was answered from the entry of the first at
\* the last instant of its TTL, the two rate fields differing
C1_Witness ==
    /\ Answer
    /\ last.hist.outcome = "hit"
    /\ PositiveFinite(last.body.amount)
    /\ SamePair(Get(last.hist.served).by.body, last.body)
    /\ now = Get(last.hist.served).at + StdTTL
    /\ last.resp.body.rate # Get(last.hist.served).by.resp.body.rate

\* the amount is 0, negative, non-numeric or missing
ZeroNegativeNonNumericOrMissing(a) ==
    \/ a.t = "undefined"
    \/ a.t = "number" /\ a.n.k = "fin" /\ a.n.v <= 0
    \/ a.t = "string" /\ StringToNumber(a.s).k = "nan"

\* C2: a request whose amount is 0, negative, non-numeric or missing is
\* answered 400 INV-AMT by the step that receives it, having called neither
\* provider nor read or written the cache, and the cache is left as it was.
C2_InvalidAmountRejected ==
    [][\A r \in Reqs :
        (Received(r) /\ ZeroNegativeNonNumericOrMissing(ReceivedBody(r).amount))
        => /\ last'.id = r
           /\ last'.resp = Response(400, "Invalid amount", "INV-AMT", NoBody)
           /\ last'.hist.rateCalls = 0
           /\ last'.hist.commentaryCalls = 0
           /\ last'.hist.cacheReads = 0
           /\ last'.hist.cacheWrites = 0
           /\ cache' = cache]_vars

\* a negative amount was rejected while the cache held an entry
C2_Witness ==
    /\ Answer
    /\ last.body.amount = JNum(Fin(-15600))
    /\ last.resp.code = "INV-AMT"
    /\ DOMAIN cache # {}

\* C3: a request whose amount is not a positive finite number is answered
\* 400 INV-AMT by the step that receives it and reaches neither the cache
\* lookup nor the rate fetch.
C3_OnlyPositiveFiniteAccepted ==
    [][\A r \in Reqs :
        (Received(r) /\ ~PositiveFinite(ReceivedBody(r).amount))
        => /\ last'.id = r
           /\ last'.resp.status = 400
           /\ last'.resp.code = "INV-AMT"
           /\ last'.hist.cacheReads = 0
           /\ last'.hist.rateCalls = 0]_vars

\* C4: when the rate fetch of a request fails, that step answers with the
\* upstream's status when there is one and 500 otherwise, with code
\* SRV-<status>; the commentary provider was not called and the cache is
\* not written.
C4_UpstreamUnavailable ==
    [][\A r \in Reqs :
        (pc[r] = "fetch" /\ last'.id = r /\ last'.hist.outcome = "upstream")
        => LET e == last'.hist.fxError
               status == IF IsDefined(e) THEN Get(e) ELSE 500
           IN  /\ last'.resp.status = status
               /\ last'.resp.code = "SRV-" \o ToString(status)
               /\ last'.resp.body = NoBody
               /\ last'.hist.commentaryCalls = 0
               /\ last'.hist.cacheWrites = 0
               /\ cache' = cache]_vars

\* a fetch failed with the upstream's 404 while the cache held an entry
C4_Witness ==
    /\ Answer
    /\ last.hist.outcome = "upstream"
    /\ last.hist.fxError = Some(404)
    /\ last.resp.code = "SRV-404"
    /\ DOMAIN cache # {}

\* C5 as stated: every response is 200 without an error code, 400 with
\* INV-AMT, or a status in 500..599 with SRV-<status>.
C5_ThreeShapes ==
    Answer =>
        \/ last.resp.status = 200 /\ last.resp.code = ""
        \/ last.resp.status = 400 /\ last.resp.code = "INV-AMT"
        \/ /\ last.resp.status \in 500..599
           /\ last.resp.code = "SRV-" \o ToString(last.resp.status)

\* C5 amended: every response is 200 with a conversion body, 400 with
\* INV-AMT, or an error with code SRV-<status> whose status is the
\* upstream's own status when the rate provider answered with one, and 500
\* otherwise.
C5_ResponseShapes ==
    Answer =>
        \/ /\ last.resp.status = 200 /\ last.resp.code = ""
           /\ last.hist.outcome \in {"hit", "fresh"}
           /\ IsDefined(last.resp.body.converted_amount)
        \/ /\ last.resp.status = 400 /\ last.resp.code = "INV-AMT"
           /\ last.hist.outcome = "invalid"
        \/ /\ last.hist.outcome \in {"upstream", "internal"}
           /\ last.resp.status = (IF IsDefined(last.hist.fxError)
                                  THEN Get(last.hist.fxError) ELSE 500)
           /\ last.resp.code = "SRV-" \o ToString(last.resp.status)
           /\ last.resp.body = NoBody

\* an upstream 404 was answered as 404
C5_Witness ==
    /\ Answer
    /\ last.hist.fxError = Some(404)
    /\ last.resp.status = 404

\* C6: whenever the commentary provider failed after a rate was fetched, the
\* request is answered 200 with the inbuilt analysis of the fetched rate,
\* the cache holds that analysis with the rate, and the provider was called
\* once.
C6_CommentaryFailureAbsorbed ==
    (Answer /\ last.hist.commentaryFailed /\ IsDefined(last.hist.fxRate)
            /\ PositiveFinite(last.body.amount))
    => /\ last.resp.status = 200
       /\ last.hist.commentaryCalls = 1
       /\ LET text == generateInbuiltAnalysis(last.body.from_currency,
                                             last.body.to_currency, last.hist.fxRate)
          IN  /\ last.resp.body.analysis = Some(text)
              /\ EntryFor(last.body).v.analysis = text
              /\ EntryFor(last.body).v.rate = last.hist.fxRate

\* C7: a request with a positive amount that finds an entry of its key
\* inserted more than 600 seconds ago treats it as absent and issues one
\* rate fetch; when it is then answered 200, the response is made of the
\* rate it fetched (rate to 4 digits, converted amount to 2), and the entry
\* is overwritten with the fetched rate, the analysis of the response and an
\* expiry 600 seconds ahead.
C7_ExpiredEntryIsMiss ==
    [][\A r \in Reqs :
        /\ (/\ Received(r)
            /\ PositiveFinite(ReceivedBody(r).amount)
            /\ cacheKey(ReceivedBody(r).from_currency, ReceivedBody(r).to_currency) \in DOMAIN cache
            /\ now > EntryFor(ReceivedBody(r)).at + StdTTL)
           => /\ pc'[r] = "fetch"
              /\ hist'[r].rateCalls = 1
              /\ cacheKey(body'[r].from_currency, body'[r].to_currency) \notin DOMAIN cache'
        /\ (/\ InFlight(r)
            /\ last'.id = r
            /\ last'.resp.status = 200
            /\ PositiveFinite(last'.body.amount)
            /\ IsDefined(last'.hist.stale))
           => /\ last'.hist.rateCalls = 1
              /\ IsDefined(last'.hist.fxRate)
              /\ Nearest(Get(last'.hist.fxRate), Get(last'.resp.body.rate),
                         RateScale \div DisplayScale)
              /\ Nearest(last'.body.amount.n.v * Get(last'.hist.fxRate),
                         Get(last'.resp.body.converted_amount).v * RateScale, RateScale)
              /\ cacheKey(last'.body.from_currency, last'.body.to_currency) \in DOMAIN cache'
              /\ LET e == cache'[cacheKey(last'.body.from_currency, last'.body.to_currency)]
                 IN  /\ e.t = now' + StdTTL
                     /\ e.v.rate = last'.hist.fxRate
                     /\ Some(e.v.analysis) = last'.resp.body.analysis
                     /\ e.v.timestamp = now'
                     /\ e.by.id = r]_vars

\* a request that found an expired entry was answered with a fetched rate
\* other than the expired one
C7_Witness ==
    /\ Answer
    /\ last.resp.status = 200
    /\ PositiveFinite(last.body.amount)
    /\ IsDefined(last.hist.stale)
    /\ now > Get(last.hist.stale).at + StdTTL
    /\ Get(last.hist.stale).v.rate # last.hist.fxRate
    /\ EntryFor(last.body).v.rate = last.hist.fxRate

\* C8: a cache hit of a request for (base, target), base other than target,
\* is never served the entry written by a request for (target, base).
C8_KeyAsymmetry ==
    (Answer /\ last.hist.outcome = "hit" /\ Get(last.hist.served).by.resp.status = 200)
    => LET w == Get(last.hist.served).by.body IN
       ~(/\ last.body.from_currency # last.body.to_currency
         /\ w.from_currency = last.body.to_currency
         /\ w.to_currency = last.body.from_currency)

\* C9: a request with a positive amount answered on a miss carries as
\* converted_amount the hundredth nearest to amount times the fetched
\* full-precision rate.
C9_ConvertedAmountRounded ==
    (Answer /\ last.hist.outcome = "fresh" /\ PositiveFinite(last.body.amount))
    => /\ IsDefined(last.resp.body.converted_amount)
       /\ Get(last.resp.body.converted_amount).k = "fin"
       /\ Nearest(last.body.amount.n.v * Get(last.hist.fxRate),
                  Get(last.resp.body.converted_amount).v * RateScale, RateScale)

\* 156 at the rate 0.92346 was answered 144.06
C9_Witness ==
    /\ Answer
    /\ last.hist.outcome = "fresh"
    /\ last.body.amount = JNum(Fin(15600))
    /\ last.hist.fxRate = Some(92346)
    /\ last.resp.body.converted_amount = Some(Fin(14406))

\* C10: a response served from the cache carries cached = true, a response
\* produced after a rate fetch carries cached = false and the provider's
\* identity as source.
C10_CachedFlag ==
    (Answer /\ last.resp.status = 200 /\ PositiveFinite(last.body.amount))
    => /\ (last.hist.outcome = "hit" => last.resp.body.cached = Some(TRUE))
       /\ (last.hist.outcome = "fresh"
           => /\ last.resp.body.cached = Some(FALSE)
              /\ last.resp.body.source = Some("Frankfurter.app"))

\* C11: a cache hit of a request with a positive amount, on an entry written
\* by a request with a positive amount, calls neither provider and writes
\* nothing; its response carries the stored rate (a
\* number), the stored analysis and the stored timestamp, which is the
\* instant of the entry's creation; its converted_amount is the hundredth
\* nearest to amount times the stored rate, equal to the converted_amount the
\* creating miss answered for the same amount; the entry, its expiry instant
\* included, is after the hit what it was before.
C11_HitReadOnly ==
    (Answer /\ last.hist.outcome = "hit" /\ PositiveFinite(last.body.amount)
            /\ PositiveFinite(Get(last.hist.served).by.body.amount))
    => LET e == Get(last.hist.served) IN
       /\ last.hist.rateCalls = 0
       /\ last.hist.commentaryCalls = 0
       /\ last.hist.cacheWrites = 0
       /\ EntryFor(last.body) = e
       /\ e.t = e.at + StdTTL
       /\ last.resp.body.analysis = Some(e.v.analysis)
       /\ last.resp.body.timestamp = Some(e.at)
       /\ IsDefined(last.resp.body.rate)
       /\ last.resp.body.rate = e.v.rate
       /\ Get(last.resp.body.converted_amount).k = "fin"
       /\ Nearest(last.body.amount.n.v * Get(e.v.rate),
                  Get(last.resp.body.converted_amount).v * RateScale, RateScale)
       /\ (e.by.body.amount = last.body.amount
           => last.resp.body.converted_amount = e.by.resp.body.converted_amount)

\* the entry was written no more than StdTTL seconds ago
Unexpired(e) == now <= e.at + StdTTL

\* C12 as stated: an entry written no more than 600 seconds ago is in the
\* cache after every step, unchanged (the entry and the one replacing it both
\* written by requests of one pair with positive amounts, answered 200).
C12_ReadOnlyUntilExpiry ==
    [][\A k \in DOMAIN cache :
        (/\ Unexpired(cache[k])
         /\ cache[k].by.resp.status = 200
         /\ PositiveFinite(cache[k].by.body.amount)
         /\ k \in DOMAIN cache'
             => /\ cache'[k].by.resp.status = 200
                /\ PositiveFinite(cache'[k].by.body.amount)
                /\ SamePair(cache'[k].by.body, cache[k].by.body))
        => (k \in DOMAIN cache' /\ cache'[k] = cache[k])]_vars

\* C12 amended: an entry written no more than 600 seconds ago is never
\* removed, and is replaced only by the cache write of a request that was
\* suspended at its commentary call and whose own cache lookup, which found
\* no unexpired entry, was no later than the entry's creation; a cache hit
\* changes nothing; every entry that appears or changes is written by the
\* request the step answers, after a lookup of its own that missed.
C12_OverwriteOnlyByEarlierMiss ==
    [][/\ \A k \in DOMAIN cache :
            Unexpired(cache[k])
            => /\ k \in DOMAIN cache'
               /\ \/ cache'[k] = cache[k]
                  \/ /\ last'.id \in Reqs
                     /\ pc[last'.id] = "analysis"
                     /\ cache'[k].by.id = last'.id
                     /\ cache'[k].at = now
                     /\ IsDefined(last'.hist.missAt)
                     /\ Get(last'.hist.missAt) <= cache[k].at
       /\ (last'.hist.outcome = "hit" => cache' = cache)
       /\ \A k \in DOMAIN cache' :
            (k \notin DOMAIN cache \/ (k \in DOMAIN cache /\ cache'[k] # cache[k]))
            => /\ last'.id \in Reqs
               /\ last'.hist.cacheWrites = 1
               /\ IsDefined(last'.hist.missAt)
               /\ cache'[k].by.id = last'.id
               /\ k = cacheKey(last'.body.from_currency, last'.body.to_currency)]_vars

\* a request answered 200 replaced the unexpired entry that another request
\* had written since its own lookup
C12_Witness ==
    /\ Answer
    /\ last.hist.outcome = "fresh"
    /\ IsDefined(last.hist.overwrote)
    /\ Get(last.hist.overwrote).id # last.id
    /\ now <= Get(last.hist.overwrote).at + StdTTL
    /\ Get(last.hist.missAt) < Get(last.hist.overwrote).at

\* the text is a commentary on the pair at the rate: the provider's answer
\* to the prompt of lines 50-55, or the inbuilt analysis
AnalysisOf(text, b, rt) ==
    \/ text \in GeminiTexts(b.from_currency, b.to_currency, rt)
    \/ /\ ~InbuiltThrows(b.from_currency, b.to_currency)
       /\ text = generateInbuiltAnalysis(b.from_currency, b.to_currency, rt)

\* C13: a request that obtained a rate and an analysis, whatever other
\* requests of its pair were in flight meanwhile, is answered 200 with the
\* rounding of the rate it fetched and an analysis of that rate, after one
\* fetch of its own; when it finishes its key holds the entry it wrote, with
\* its rate and its analysis; and in every state every entry pairs the rate
\* its writer fetched with an analysis of that rate for the writer's pair.
C13_ConcurrentMissesBenign ==
    /\ (Answer /\ last.hist.cacheWrites = 1 /\ IsDefined(last.hist.fxRate))
       => /\ last.resp.status = 200
          /\ last.hist.rateCalls = 1
          /\ Nearest(Get(last.hist.fxRate), Get(last.resp.body.rate), RateScale \div DisplayScale)
          /\ AnalysisOf(Get(last.resp.body.analysis), last.body, last.hist.fxRate)
          /\ cacheKey(last.body.from_currency, last.body.to_currency) \in DOMAIN cache
          /\ EntryFor(last.body).by.id = last.id
          /\ EntryFor(last.body).v.rate = last.hist.fxRate
          /\ Some(EntryFor(last.body).v.analysis) = last.resp.body.analysis
    /\ \A k \in DOMAIN cache :
          /\ cache[k].v.rate = cache[k].by.hist.fxRate
          /\ AnalysisOf(cache[k].v.analysis, cache[k].by.body, cache[k].v.rate)
          /\ k = cacheKey(cache[k].by.body.from_currency, cache[k].by.body.to_currency)

\* the later of two overlapping requests of one pair that fetched different
\* rates was answered with its own rate, which is the one the cache now holds
C13_Witness ==
    /\ Answer
    /\ last.hist.outcome = "fresh"
    /\ IsDefined(last.hist.overwrote)
    /\ Get(last.hist.overwrote).id # last.id
    /\ Get(last.hist.missAt) <= Get(last.hist.overwrote).at
    /\ IsDefined(Get(last.hist.overwrote).rate)
    /\ Get(last.hist.overwrote).rate # last.hist.fxRate
    /\ \A r \in Reqs : pc[r] = "done"
    /\ EntryFor(last.body).v.rate = last.hist.fxRate

\* C14: every entry written by a request with a positive amount holds a rate
\* that is a number greater than zero and was written by a request answered
\* 200; a request with a positive amount answered with an error has written
\* nothing to the cache.
C14_EntriesFromSuccess ==
    /\ \A k \in DOMAIN cache :
          PositiveFinite(cache[k].by.body.amount)
          => /\ IsDefined(cache[k].v.rate)
             /\ Get(cache[k].v.rate) > 0
             /\ cache[k].by.resp.status = 200
    /\ (Answer /\ PositiveFinite(last.body.amount) /\ last.resp.status # 200)
       => last.hist.cacheWrites = 0

\* C15: the entry a cache hit is served from was written by a request whose
\* (from_currency, to_currency) is the pair of the request served (both with
\* positive amounts, the writer answered 200).
C15_PairsNeverShareEntry ==
    (/\ Answer /\ last.hist.outcome = "hit"
     /\ PositiveFinite(last.body.amount)
     /\ PositiveFinite(Get(last.hist.served).by.body.amount)
     /\ Get(last.hist.served).by.resp.status = 200)
    => /\ Get(last.hist.served).by.body.from_currency = last.body.from_currency
       /\ Get(last.hist.served).by.body.to_currency = last.body.to_currency

\* the text holds the piece
Names(text, piece) == \E i \in 1..Len(text) : text[i] = piece

\* the strength the static table gives a code, "neutral" for every other code
StrengthOf(code) ==
    CASE code = "USD" -> "strong"
      [] code \in {"EUR", "GBP"} -> "moderate"
      [] code = "JPY" -> "weak"
      [] code = "AUD" -> "commodity-linked"
      [] OTHER -> "neutral"

\* the request was answered after generateContent failed
Synthesized == Answer /\ last.hist.commentaryFailed

\* C16: for every base, target and rate, the inbuilt analysis is returned as
\* a non-empty text that names both codes, holds "strengthening" exactly when
\* the rate is above 1 and "weakening" otherwise, and holds "bullish" exactly
\* when the base is strong and the target is not, and "neutral" otherwise.
C16_FallbackBranches ==
    Synthesized
    => /\ IsDefined(last.resp.body.analysis)
       /\ LET text == Get(last.resp.body.analysis)
              x == Get(last.hist.fxRate)
              bullish == StrengthOf(last.body.from_currency) = "strong"
                         /\ StrengthOf(last.body.to_currency) # "strong"
          IN  /\ Len(text) > 0
              /\ Names(text, last.body.from_currency)
              /\ Names(text, last.body.to_currency)
              /\ Names(text, "strengthening") <=> x > RateScale
              /\ Names(text, "weakening") <=> x <= RateScale
              /\ Names(text, "bullish") <=> bullish
              /\ Names(text, "neutral") <=> ~bullish

\* the codes of the static table
KnownCodes == {"USD", "EUR", "GBP", "JPY", "AUD"}

\* C17: for every base, target and rate, the inbuilt analysis raises no error
\* and returns a text, so that the request whose commentary call failed is
\* answered 200 with it; a code outside the table is given the default
\* drivers in the text.
C17_SynthesizerNeverFails ==
    Synthesized
    => /\ last.resp.status = 200
       /\ last.hist.outcome = "fresh"
       /\ IsDefined(last.resp.body.analysis)
       /\ \A code \in {last.body.from_currency, last.body.to_currency} \ KnownCodes :
             Names(Get(last.resp.body.analysis), "interest rates and economic data")

\* C18: a response produced after a rate fetch carries the multiple of
\* 0.0001 nearest to the provider's rate, while the entry it wrote holds the
\* provider's rate itself; a cache hit carries the rate of the entry as
\* stored, which is the rate its writer was given by the provider.
C18_DisplayRateVsStoredRate ==
    /\ (Answer /\ last.hist.outcome = "fresh")
       => /\ IsDefined(last.resp.body.rate)
          /\ Nearest(Get(last.hist.fxRate), Get(last.resp.body.rate), RateScale \div DisplayScale)
          /\ EntryFor(last.body).v.rate = last.hist.fxRate
    /\ (Answer /\ last.hist.outcome = "hit")
       => /\ last.resp.body.rate = Get(last.hist.served).v.rate
          /\ last.resp.body.rate = Get(last.hist.served).by.hist.fxRate

\* a hit was answered 0.92346 from the entry of a request answered 0.9235
C18_Witness ==
    /\ Answer
    /\ last.hist.outcome = "hit"
    /\ last.resp.body.rate = Some(92346)
    /\ Get(last.hist.served).v.rate = Some(92346)
    /\ Get(last.hist.served).by.resp.body.rate = Some(92350)

\* the four kinds of response: invalid amount, cache hit, fresh result, error
ResponseKind(a) ==
    CASE a.resp.status = 400 /\ a.resp.code = "INV-AMT" -> "invalid"
      [] a.resp.status = 200 /\ a.resp.body.cached = Some(TRUE) -> "hit"
      [] a.resp.status = 200 /\ a.resp.body.source = Some("Frankfurter.app") -> "fresh"
      [] a.resp.status \notin {200, 400} /\ a.resp.error = "Conversion service unavailable"
           -> "error"
      [] OTHER -> "none"

\* C19: a step sends a response to a request exactly when it ends that
\* request, the response is of one of the four kinds, an ended request takes
\* no further step (so none is answered twice), and, every external call
\* settling, every request received is eventually ended (so none is left
\* unanswered).
C19_ExactlyOneResponse ==
    /\ [][\A r \in Reqs :
            /\ (pc[r] # "done" /\ pc'[r] = "done") <=> last'.id = r
            /\ pc[r] = "done" => pc'[r] = "done"
            /\ last'.id = r => ResponseKind(last') \in {"invalid", "hit", "fresh", "error"}
            /\ Received(r) => pc'[r] \in {"fetch", "done"}]_vars
    /\ \A r \in Reqs : InFlight(r) ~> (pc[r] = "done")

\* both requests are answered, the one answered last with an error after the
\* other wrote the entry of its pair during its rate fetch
C19_Witness ==
    /\ \A r \in Reqs : pc[r] = "done"
    /\ Answer
    /\ ResponseKind(last) = "error"
    /\ cacheKey(last.body.from_currency, last.body.to_currency) \in DOMAIN cache
    /\ EntryFor(last.body).by.id # last.id
    /\ Get(last.hist.missAt) < EntryFor(last.body).at

\* C20: whenever a request replaces the entry of its pair, the rate it stores
\* was fetched no earlier than the rate of the entry replaced (both requests
\* with positive amounts and answered 200).
C20_NeverBackToOlderQuote ==
    [][\A r \in Reqs :
        (/\ pc[r] = "analysis"
         /\ last'.id = r
         /\ last'.hist.cacheWrites = 1
         /\ last'.resp.status = 200
         /\ PositiveFinite(last'.body.amount)
         /\ KeyOf(r) \in DOMAIN cache
         /\ cache[KeyOf(r)].by.resp.status = 200
         /\ PositiveFinite(cache[KeyOf(r)].by.body.amount)
         /\ SamePair(cache[KeyOf(r)].by.body, body[r]))
        => Get(cache'[KeyOf(r)].by.hist.fetchedAt) >= Get(cache[KeyOf(r)].by.hist.fetchedAt)]_vars

====
